---- MODULE Spec2Model ----
(***************************************************************************)
(* Model of the client authentication-state lifecycle of                   *)
(* frontend/src/contexts/AuthContext.jsx (AuthProvider).                   *)
(*                                                                         *)
(* State: the localStorage 'token' entry, the `user` React state, and for  *)
(* every call of the mount effect / login / logout / register its position *)
(* (the await it is suspended at), its local variables and the side        *)
(* effects it has produced (HTTP requests issued, navigations triggered).  *)
(* Every `await` of the source is a suspension point: the code between two *)
(* awaits is one atomic action.  The server's answers are the inputs.      *)
(***************************************************************************)
EXTENDS Naturals, Sequences, FiniteSets, TLC

VARIABLES token, user, pc, res, bearer, profileRes, ret, reqs, navs, cur, pre, calls

vars == <<token, user, pc, res, bearer, profileRes, ret, reqs, navs, cur, pre, calls>>

(* ------------------------------ bounds -------------------------------- *)
\* number of login / logout / register calls started after mount
MaxCalls == 2

(* ------------------------------ values -------------------------------- *)
NULL == "<null>"            \* JS null (absent Session State, getItem miss)
UNDEFINED == "<undefined>"  \* a field the JSON object does not have
PENDING == "<pending>"      \* the promise of the call has not settled yet

Tokens == {"t1", "t2"}      \* non-empty token strings
Users == {"u1", "u2"}       \* user records (objects: truthy)
Messages == {"bad creds"}   \* non-empty server messages

\* JS truthiness of the values the model holds: null, undefined and the
\* empty string are falsy, non-empty strings and objects are truthy.
Truthy(v) == v \notin {NULL, UNDEFINED, ""}

\* mutation: `a ?? b` written for `a || b` (an empty string is kept)
OrElseNullish(a, b) == IF a \in {NULL, UNDEFINED} THEN b ELSE a

\* JS `a || b`
OrElse(a, b) == IF Truthy(a) THEN a ELSE b

(* ------------------------------ calls --------------------------------- *)
INIT == "init"
LOGOUT == "logout"
Logins == {"login1", "login2"}
Registers == {"register1"}
Procs == {INIT, LOGOUT} \cup Logins \cup Registers

(* --------------------------- HTTP responses --------------------------- *)
\* What `await res.json()` finds: a body that is no JSON ("unparseable"),
\* the JSON value null, or a JSON object with the fields the code reads.
NoBody == [kind |-> "none", message |-> UNDEFINED, token |-> UNDEFINED, user |-> UNDEFINED]
Unparseable == [NoBody EXCEPT !.kind = "unparseable"]
JsonNull == [NoBody EXCEPT !.kind = "null"]
Object == [NoBody EXCEPT !.kind = "object"]

\* bodies of a non-2xx answer, and of /register's answer: only `message` is read
ErrBodies == {Unparseable, JsonNull} \cup
             {[Object EXCEPT !.message = m] : m \in {UNDEFINED, ""} \cup Messages}
\* bodies of a 2xx /login answer: only `token` is read
LoginBodies == {Unparseable, JsonNull} \cup
               {[Object EXCEPT !.token = t] : t \in {UNDEFINED, ""} \cup Tokens}
\* bodies of a 2xx /user/me answer: only `user` is read
MeBodies == {Unparseable, JsonNull} \cup
            {[Object EXCEPT !.user = u] : u \in {UNDEFINED, NULL} \cup Users}

\* a response as the call holds it: not yet received ("none"), fetch rejected
\* ("rejected": transport failure), or received with res.ok true / false
NoRes == [status |-> "none", body |-> NoBody]

\* `res.json().catch(() => ({}))`: an unparseable body reads as {}
JsonOrEmpty(b) == IF b.kind = "unparseable" THEN Object ELSE b

\* `data?.message`
MessageOf(d) == IF d.kind = "object" THEN d.message ELSE UNDEFINED

Request(path, auth) == [path |-> path, auth |-> auth]
NoAuth == "<none>"

(* ---------------------------- initial state --------------------------- *)
\* localStorage outlives the page, `user` is useState(null)
Init ==
    /\ token \in Tokens \cup {NULL}
    /\ user = NULL
    /\ pc = [p \in Procs |-> IF p = INIT THEN "mount" ELSE "idle"]
    /\ res = [p \in Procs |-> NoRes]
    /\ bearer = [p \in Procs |-> NULL]
    /\ profileRes = [p \in Procs |-> NoRes]
    /\ ret = [p \in Procs |-> PENDING]
    /\ reqs = [p \in Procs |-> <<>>]
    /\ navs = [p \in Procs |-> <<>>]
    /\ cur = INIT
    /\ pre = [user |-> NULL, token |-> token]
    /\ calls = 0

(* ------------------------------ helpers ------------------------------- *)
\* What a settled call leaves behind (its return value, the responses it
\* saw, the requests and navigations it made) stays observable until
\* another call starts or settles; then its record is dropped.
Forget(f, blank) == [q \in Procs |-> IF pc[q] = "done" THEN blank ELSE f[q]]

\* the positions once call p has moved to `at` by starting or settling
\* (the mount effect runs once: it stays done)
Positions(p, at) ==
    [q \in Procs |-> IF q = p THEN at
                     ELSE IF q # INIT /\ pc[q] = "done" THEN "idle" ELSE pc[q]]

\* the call p settles: its promise resolves with r
Return(p, r) ==
    /\ pc' = Positions(p, "done")
    /\ ret' = [Forget(ret, PENDING) EXCEPT ![p] = r]

\* navigate(dest) triggered by call p as it settles
Navigate(p, dest) == navs' = [Forget(navs, <<>>) EXCEPT ![p] = Append(@, dest)]

\* call p settles without navigating
NoNavigate == navs' = Forget(navs, <<>>)

\* the response body call p read as it settles
Read(p, b) == res' = [Forget(res, NoRes) EXCEPT ![p].body = b]

\* fetch(...) issued by call p, which stays suspended
Fetch(p, path, auth) == reqs' = [reqs EXCEPT ![p] = Append(@, Request(path, auth))]

\* a call starts: it becomes the most recently started call, and the state
\* it starts from is remembered
Begin(p) ==
    /\ pc[INIT] # "mount"
    /\ pc[p] \in {"idle", "done"}
    /\ calls < MaxCalls
    /\ calls' = calls + 1
    /\ cur' = p
    /\ pre' = [user |-> user, token |-> token]

\* mutation: the `user` field is never picked up
UserFromNothing(b) == NULL

\* `const data = await res.json(); setUser(data.user || null)` inside a try
\* whose catch does setUser(null): the value `user` is set to
UserFrom(b) == IF b.kind = "object" THEN OrElse(b.user, NULL) ELSE NULL

(* ------------------- mount effect and fetchUserData ------------------- *)
\* mutation: the early `return` of the no-token branch is missing
MountNoReturn ==
    /\ pc[INIT] = "mount"
    /\ bearer' = [bearer EXCEPT ![INIT] = token]
    /\ Fetch(INIT, "/user/me", token)
    /\ pc' = [pc EXCEPT ![INIT] = "awaitMe"]
    /\ user' = IF ~Truthy(token) THEN NULL ELSE user
    /\ UNCHANGED <<token, ret, res, profileRes, navs, cur, pre, calls>>

\* useEffect body: read the token; none => setUser(null) and stop,
\* otherwise call fetchUserData, which runs up to its first await
Mount ==
    /\ pc[INIT] = "mount"
    /\ bearer' = [bearer EXCEPT ![INIT] = token]
    /\ IF ~Truthy(token)
       THEN /\ user' = NULL
            /\ Return(INIT, UNDEFINED)
            /\ UNCHANGED reqs
       ELSE /\ Fetch(INIT, "/user/me", token)
            /\ pc' = [pc EXCEPT ![INIT] = "awaitMe"]
            /\ UNCHANGED <<user, ret>>
    /\ UNCHANGED <<token, res, profileRes, navs, cur, pre, calls>>

\* mutation: the catch purges the token as the !res.ok branch does
InitFetchRejectedPurges ==
    /\ pc[INIT] = "awaitMe"
    /\ res' = [Forget(res, NoRes) EXCEPT ![INIT].status = "rejected"]
    /\ token' = NULL
    /\ user' = NULL
    /\ Return(INIT, UNDEFINED)
    /\ NoNavigate
    /\ bearer' = Forget(bearer, NULL)
    /\ profileRes' = Forget(profileRes, NoRes)
    /\ reqs' = Forget(reqs, <<>>)
    /\ UNCHANGED <<cur, pre, calls>>

\* fetch rejects (transport failure): catch => setUser(null)
InitFetchRejected ==
    /\ pc[INIT] = "awaitMe"
    /\ res' = [Forget(res, NoRes) EXCEPT ![INIT].status = "rejected"]
    /\ user' = NULL
    /\ Return(INIT, UNDEFINED)
    /\ NoNavigate
    /\ bearer' = Forget(bearer, NULL)
    /\ profileRes' = Forget(profileRes, NoRes)
    /\ reqs' = Forget(reqs, <<>>)
    /\ UNCHANGED <<token, cur, pre, calls>>

\* fetch resolves: res.ok decides which res.json() is awaited next
InitFetchResponse(ok) ==
    /\ pc[INIT] = "awaitMe"
    /\ res' = [res EXCEPT ![INIT].status = IF ok THEN "ok" ELSE "notok"]
    /\ pc' = [pc EXCEPT ![INIT] = IF ok THEN "awaitJson" ELSE "awaitErrJson"]
    /\ UNCHANGED <<token, user, bearer, profileRes, ret, reqs, navs, cur, pre, calls>>

\* mutation: removeItem('token') is missing from the !res.ok branch
InitErrJsonKeepsToken(b) ==
    /\ pc[INIT] = "awaitErrJson"
    /\ Read(INIT, b)
    /\ user' = NULL
    /\ Return(INIT, UNDEFINED)
    /\ NoNavigate
    /\ bearer' = Forget(bearer, NULL)
    /\ profileRes' = Forget(profileRes, NoRes)
    /\ reqs' = Forget(reqs, <<>>)
    /\ UNCHANGED <<token, cur, pre, calls>>

\* !res.ok: res.json().catch(() => ({})) settles; log, removeItem, setUser(null)
InitErrJson(b) ==
    /\ pc[INIT] = "awaitErrJson"
    /\ Read(INIT, b)
    /\ token' = NULL
    /\ user' = NULL
    /\ Return(INIT, UNDEFINED)
    /\ NoNavigate
    /\ bearer' = Forget(bearer, NULL)
    /\ profileRes' = Forget(profileRes, NoRes)
    /\ reqs' = Forget(reqs, <<>>)
    /\ UNCHANGED <<cur, pre, calls>>

\* res.ok: res.json() settles; setUser(data.user || null), or the catch
InitJson(b) ==
    /\ pc[INIT] = "awaitJson"
    /\ Read(INIT, b)
    /\ user' = UserFrom(b)
    /\ Return(INIT, UNDEFINED)
    /\ NoNavigate
    /\ bearer' = Forget(bearer, NULL)
    /\ profileRes' = Forget(profileRes, NoRes)
    /\ reqs' = Forget(reqs, <<>>)
    /\ UNCHANGED <<token, cur, pre, calls>>

(* ------------------------------- logout ------------------------------- *)
\* mutation: setUser(null) is missing from logout
LogoutKeepsUser ==
    /\ Begin(LOGOUT)
    /\ token' = NULL
    /\ Navigate(LOGOUT, "/")
    /\ Return(LOGOUT, UNDEFINED)
    /\ res' = Forget(res, NoRes)
    /\ profileRes' = Forget(profileRes, NoRes)
    /\ bearer' = Forget(bearer, NULL)
    /\ reqs' = Forget(reqs, <<>>)
    /\ UNCHANGED user

\* removeItem('token'); setUser(null); navigate("/")
Logout ==
    /\ Begin(LOGOUT)
    /\ token' = NULL
    /\ user' = NULL
    /\ Navigate(LOGOUT, "/")
    /\ Return(LOGOUT, UNDEFINED)
    /\ res' = Forget(res, NoRes)
    /\ profileRes' = Forget(profileRes, NoRes)
    /\ bearer' = Forget(bearer, NULL)
    /\ reqs' = Forget(reqs, <<>>)

(* -------------------------------- login ------------------------------- *)
NoToken == "no token"
LoginFailed == "login failed"
UnableToLogin == "unable to login"

\* login(username, password) up to its first await: POST /login is issued
LoginStart(p) ==
    /\ Begin(p)
    /\ pc' = Positions(p, "awaitLogin")
    /\ res' = Forget(res, NoRes)
    /\ profileRes' = Forget(profileRes, NoRes)
    /\ bearer' = Forget(bearer, NULL)
    /\ ret' = Forget(ret, PENDING)
    /\ reqs' = [Forget(reqs, <<>>) EXCEPT ![p] = <<Request("/login", NoAuth)>>]
    /\ navs' = Forget(navs, <<>>)
    /\ UNCHANGED <<token, user>>

\* mutation: a rejected POST /login is retried once before giving up
LoginFetchRejectedRetries(p) ==
    /\ pc[p] = "awaitLogin"
    /\ IF Len(reqs[p]) < 2
       THEN /\ Fetch(p, "/login", NoAuth)
            /\ UNCHANGED <<pc, ret, res, navs, bearer, profileRes>>
       ELSE /\ res' = [Forget(res, NoRes) EXCEPT ![p].status = "rejected"]
            /\ Return(p, UnableToLogin)
            /\ NoNavigate
            /\ bearer' = Forget(bearer, NULL)
            /\ profileRes' = Forget(profileRes, NoRes)
            /\ reqs' = Forget(reqs, <<>>)
    /\ UNCHANGED <<token, user, cur, pre, calls>>

\* mutation: the outer catch also resets the session
LoginFetchRejectedClears(p) ==
    /\ pc[p] = "awaitLogin"
    /\ res' = [Forget(res, NoRes) EXCEPT ![p].status = "rejected"]
    /\ user' = NULL
    /\ Return(p, UnableToLogin)
    /\ NoNavigate
    /\ bearer' = Forget(bearer, NULL)
    /\ profileRes' = Forget(profileRes, NoRes)
    /\ reqs' = Forget(reqs, <<>>)
    /\ UNCHANGED <<token, cur, pre, calls>>

\* POST /login rejects (transport failure): outer catch
LoginFetchRejected(p) ==
    /\ pc[p] = "awaitLogin"
    /\ res' = [Forget(res, NoRes) EXCEPT ![p].status = "rejected"]
    /\ Return(p, UnableToLogin)
    /\ NoNavigate
    /\ bearer' = Forget(bearer, NULL)
    /\ profileRes' = Forget(profileRes, NoRes)
    /\ reqs' = Forget(reqs, <<>>)
    /\ UNCHANGED <<token, user, cur, pre, calls>>

\* POST /login resolves: res.ok decides which res.json() is awaited next
LoginFetchResponse(p, ok) ==
    /\ pc[p] = "awaitLogin"
    /\ res' = [res EXCEPT ![p].status = IF ok THEN "ok" ELSE "notok"]
    /\ pc' = [pc EXCEPT ![p] = IF ok THEN "awaitJson" ELSE "awaitErrJson"]
    /\ UNCHANGED <<token, user, bearer, profileRes, ret, reqs, navs, cur, pre, calls>>

\* !res.ok: return data?.message || 'login failed'
LoginErrJson(p, b) ==
    /\ pc[p] = "awaitErrJson"
    /\ Read(p, b)
    /\ Return(p, OrElse(MessageOf(JsonOrEmpty(b)), LoginFailed))
    /\ NoNavigate
    /\ bearer' = Forget(bearer, NULL)
    /\ profileRes' = Forget(profileRes, NoRes)
    /\ reqs' = Forget(reqs, <<>>)
    /\ UNCHANGED <<token, user, cur, pre, calls>>

\* mutation: setItem('token', data.token) runs before the `!data.token` test
LoginJsonStoresFirst(p, b) ==
    /\ pc[p] = "awaitJson"
    /\ IF b.kind \in {"unparseable", "null"} \/ ~Truthy(b.token)
       THEN /\ Read(p, b)
            /\ Return(p, IF b.kind = "unparseable" THEN UnableToLogin ELSE NoToken)
            /\ NoNavigate
            /\ bearer' = Forget(bearer, NULL)
            /\ profileRes' = Forget(profileRes, NoRes)
            /\ reqs' = Forget(reqs, <<>>)
            /\ token' = IF b.kind = "object" THEN b.token ELSE token
       ELSE /\ res' = [res EXCEPT ![p].body = b]
            /\ token' = b.token
            /\ bearer' = [bearer EXCEPT ![p] = b.token]
            /\ Fetch(p, "/user/me", b.token)
            /\ pc' = [pc EXCEPT ![p] = "awaitProfile"]
            /\ UNCHANGED <<ret, navs, profileRes>>
    /\ UNCHANGED <<user, cur, pre, calls>>

\* mutation: setItem('token', data.token) is missing
LoginJsonNoStore(p, b) ==
    /\ pc[p] = "awaitJson"
    /\ IF b.kind \in {"unparseable", "null"} \/ ~Truthy(b.token)
       THEN /\ Read(p, b)
            /\ Return(p, IF b.kind = "unparseable" THEN UnableToLogin ELSE NoToken)
            /\ NoNavigate
            /\ bearer' = Forget(bearer, NULL)
            /\ profileRes' = Forget(profileRes, NoRes)
            /\ reqs' = Forget(reqs, <<>>)
       ELSE /\ res' = [res EXCEPT ![p].body = b]
            /\ bearer' = [bearer EXCEPT ![p] = b.token]
            /\ Fetch(p, "/user/me", b.token)
            /\ pc' = [pc EXCEPT ![p] = "awaitProfile"]
            /\ UNCHANGED <<ret, navs, profileRes>>
    /\ UNCHANGED <<token, user, cur, pre, calls>>

\* mutation: the who-am-I request is built from the token found in storage
\* before setItem runs, not from data.token
LoginJsonSendsStoredToken(p, b) ==
    /\ pc[p] = "awaitJson"
    /\ IF b.kind \in {"unparseable", "null"} \/ ~Truthy(b.token)
       THEN /\ Read(p, b)
            /\ Return(p, IF b.kind = "unparseable" THEN UnableToLogin ELSE NoToken)
            /\ NoNavigate
            /\ bearer' = Forget(bearer, NULL)
            /\ profileRes' = Forget(profileRes, NoRes)
            /\ reqs' = Forget(reqs, <<>>)
            /\ UNCHANGED token
       ELSE /\ res' = [res EXCEPT ![p].body = b]
            /\ token' = b.token
            /\ bearer' = [bearer EXCEPT ![p] = token]
            /\ Fetch(p, "/user/me", token)
            /\ pc' = [pc EXCEPT ![p] = "awaitProfile"]
            /\ UNCHANGED <<ret, navs, profileRes>>
    /\ UNCHANGED <<user, cur, pre, calls>>

\* res.ok: data = await res.json() (a throw goes to the outer catch);
\* no data or no data.token => 'no token'; otherwise setItem('token',
\* data.token) and GET /user/me with that token is issued
LoginJson(p, b) ==
    /\ pc[p] = "awaitJson"
    /\ IF b.kind \in {"unparseable", "null"} \/ ~Truthy(b.token)
       THEN /\ Read(p, b)
            /\ Return(p, IF b.kind = "unparseable" THEN UnableToLogin ELSE NoToken)
            /\ NoNavigate
            /\ bearer' = Forget(bearer, NULL)
            /\ profileRes' = Forget(profileRes, NoRes)
            /\ reqs' = Forget(reqs, <<>>)
            /\ UNCHANGED token
       ELSE /\ res' = [res EXCEPT ![p].body = b]
            /\ token' = b.token
            /\ bearer' = [bearer EXCEPT ![p] = b.token]
            /\ Fetch(p, "/user/me", b.token)
            /\ pc' = [pc EXCEPT ![p] = "awaitProfile"]
            /\ UNCHANGED <<ret, navs, profileRes>>
    /\ UNCHANGED <<user, cur, pre, calls>>

\* GET /user/me rejects: inner catch => setUser(null); navigate; return ""
LoginProfileRejected(p) ==
    /\ pc[p] = "awaitProfile"
    /\ profileRes' = [Forget(profileRes, NoRes) EXCEPT ![p].status = "rejected"]
    /\ user' = NULL
    /\ Navigate(p, "/profile")
    /\ Return(p, "")
    /\ res' = Forget(res, NoRes)
    /\ bearer' = Forget(bearer, NULL)
    /\ reqs' = Forget(reqs, <<>>)
    /\ UNCHANGED <<token, cur, pre, calls>>

\* mutation: the `else { setUser(null) }` of the profile fetch is missing
LoginProfileResponseStale(p, ok) ==
    /\ pc[p] = "awaitProfile"
    /\ IF ok
       THEN /\ profileRes' = [profileRes EXCEPT ![p].status = "ok"]
            /\ pc' = [pc EXCEPT ![p] = "awaitProfileJson"]
            /\ UNCHANGED <<navs, ret, res, bearer, reqs>>
       ELSE /\ profileRes' = [Forget(profileRes, NoRes) EXCEPT ![p].status = "notok"]
            /\ Navigate(p, "/profile")
            /\ Return(p, "")
            /\ res' = Forget(res, NoRes)
            /\ bearer' = Forget(bearer, NULL)
            /\ reqs' = Forget(reqs, <<>>)
    /\ UNCHANGED <<user, token, cur, pre, calls>>

\* GET /user/me resolves: profileRes.ok => await profileRes.json();
\* otherwise setUser(null); navigate; return ""
LoginProfileResponse(p, ok) ==
    /\ pc[p] = "awaitProfile"
    /\ IF ok
       THEN /\ profileRes' = [profileRes EXCEPT ![p].status = "ok"]
            /\ pc' = [pc EXCEPT ![p] = "awaitProfileJson"]
            /\ UNCHANGED <<user, navs, ret, res, bearer, reqs>>
       ELSE /\ profileRes' = [Forget(profileRes, NoRes) EXCEPT ![p].status = "notok"]
            /\ user' = NULL
            /\ Navigate(p, "/profile")
            /\ Return(p, "")
            /\ res' = Forget(res, NoRes)
            /\ bearer' = Forget(bearer, NULL)
            /\ reqs' = Forget(reqs, <<>>)
    /\ UNCHANGED <<token, cur, pre, calls>>

\* mutation: a profile answer is dropped when a newer call has started
\* since this login began (writes coordinated: stale answers ignored)
LoginProfileJsonDropsStale(p, b) ==
    /\ pc[p] = "awaitProfileJson"
    /\ profileRes' = [Forget(profileRes, NoRes) EXCEPT ![p].body = b]
    /\ user' = IF cur = p THEN UserFrom(b) ELSE user
    /\ Navigate(p, "/profile")
    /\ Return(p, "")
    /\ res' = Forget(res, NoRes)
    /\ bearer' = Forget(bearer, NULL)
    /\ reqs' = Forget(reqs, <<>>)
    /\ UNCHANGED <<token, cur, pre, calls>>

\* profileRes.json() settles: setUser(profileData.user || null), or the
\* inner catch; navigate; return ""
LoginProfileJson(p, b) ==
    /\ pc[p] = "awaitProfileJson"
    /\ profileRes' = [Forget(profileRes, NoRes) EXCEPT ![p].body = b]
    /\ user' = UserFrom(b)
    /\ Navigate(p, "/profile")
    /\ Return(p, "")
    /\ res' = Forget(res, NoRes)
    /\ bearer' = Forget(bearer, NULL)
    /\ reqs' = Forget(reqs, <<>>)
    /\ UNCHANGED <<token, cur, pre, calls>>

(* ------------------------------ register ------------------------------ *)
RegistrationFailed == "registration failed"
UnableToRegister == "unable to register"

\* register(userData) up to its first await: POST /register is issued
RegisterStart(p) ==
    /\ Begin(p)
    /\ pc' = Positions(p, "awaitRegister")
    /\ res' = Forget(res, NoRes)
    /\ profileRes' = Forget(profileRes, NoRes)
    /\ bearer' = Forget(bearer, NULL)
    /\ ret' = Forget(ret, PENDING)
    /\ reqs' = [Forget(reqs, <<>>) EXCEPT ![p] = <<Request("/register", NoAuth)>>]
    /\ navs' = Forget(navs, <<>>)
    /\ UNCHANGED <<token, user>>

\* POST /register rejects (transport failure): catch
RegisterFetchRejected(p) ==
    /\ pc[p] = "awaitRegister"
    /\ res' = [Forget(res, NoRes) EXCEPT ![p].status = "rejected"]
    /\ Return(p, UnableToRegister)
    /\ NoNavigate
    /\ bearer' = Forget(bearer, NULL)
    /\ profileRes' = Forget(profileRes, NoRes)
    /\ reqs' = Forget(reqs, <<>>)
    /\ UNCHANGED <<token, user, cur, pre, calls>>

\* POST /register resolves: res.json().catch(() => ({})) is awaited
RegisterFetchResponse(p, ok) ==
    /\ pc[p] = "awaitRegister"
    /\ res' = [res EXCEPT ![p].status = IF ok THEN "ok" ELSE "notok"]
    /\ pc' = [pc EXCEPT ![p] = "awaitJson"]
    /\ UNCHANGED <<token, user, bearer, profileRes, ret, reqs, navs, cur, pre, calls>>

\* mutation: `await res.json()` without the .catch: an unparseable body
\* throws into the outer catch
RegisterJsonNoCatch(p, b) ==
    /\ pc[p] = "awaitJson"
    /\ Read(p, b)
    /\ IF b.kind = "unparseable"
       THEN /\ Return(p, UnableToRegister)
            /\ NoNavigate
       ELSE IF res[p].status = "notok"
       THEN /\ Return(p, OrElse(MessageOf(b), RegistrationFailed))
            /\ NoNavigate
       ELSE /\ Navigate(p, "/success")
            /\ Return(p, "")
    /\ bearer' = Forget(bearer, NULL)
    /\ profileRes' = Forget(profileRes, NoRes)
    /\ reqs' = Forget(reqs, <<>>)
    /\ UNCHANGED <<token, user, cur, pre, calls>>

\* mutation: navigate('/success') runs before the `!res.ok` test
RegisterJsonNavigatesFirst(p, b) ==
    /\ pc[p] = "awaitJson"
    /\ Read(p, b)
    /\ Navigate(p, "/success")
    /\ Return(p, IF res[p].status = "notok"
                 THEN OrElse(MessageOf(JsonOrEmpty(b)), RegistrationFailed)
                 ELSE "")
    /\ bearer' = Forget(bearer, NULL)
    /\ profileRes' = Forget(profileRes, NoRes)
    /\ reqs' = Forget(reqs, <<>>)
    /\ UNCHANGED <<token, user, cur, pre, calls>>

\* the body settles: !res.ok => return data?.message || 'registration
\* failed'; otherwise navigate('/success'); return ""
RegisterJson(p, b) ==
    /\ pc[p] = "awaitJson"
    /\ Read(p, b)
    /\ IF res[p].status = "notok"
       THEN /\ Return(p, OrElse(MessageOf(JsonOrEmpty(b)), RegistrationFailed))
            /\ NoNavigate
       ELSE /\ Navigate(p, "/success")
            /\ Return(p, "")
    /\ bearer' = Forget(bearer, NULL)
    /\ profileRes' = Forget(profileRes, NoRes)
    /\ reqs' = Forget(reqs, <<>>)
    /\ UNCHANGED <<token, user, cur, pre, calls>>

(* --------------------------- specifications --------------------------- *)
\* a step of a call that is under way: the event loop delivers a settled
\* fetch or body to the continuation waiting for it
InitStep ==
    \/ Mount
    \/ InitFetchRejected
    \/ \E ok \in BOOLEAN : InitFetchResponse(ok)
    \/ \E b \in ErrBodies : InitErrJson(b)
    \/ \E b \in MeBodies : InitJson(b)

LoginStep(p) ==
    \/ LoginFetchRejected(p)
    \/ \E ok \in BOOLEAN : LoginFetchResponse(p, ok)
    \/ \E b \in ErrBodies : LoginErrJson(p, b)
    \/ \E b \in LoginBodies : LoginJson(p, b)
    \/ LoginProfileRejected(p)
    \/ \E ok \in BOOLEAN : LoginProfileResponse(p, ok)
    \/ \E b \in MeBodies : LoginProfileJson(p, b)

RegisterStep(p) ==
    \/ RegisterFetchRejected(p)
    \/ \E ok \in BOOLEAN : RegisterFetchResponse(p, ok)
    \/ \E b \in ErrBodies : RegisterJson(p, b)

\* a UI consumer calls login, logout or register
Call ==
    \/ \E p \in Logins : LoginStart(p)
    \/ \E p \in Registers : RegisterStart(p)
    \/ Logout

Step ==
    \/ InitStep
    \/ \E p \in Logins : LoginStep(p)
    \/ \E p \in Registers : RegisterStep(p)

\* no call is suspended at an await
Idle == \A p \in Procs : pc[p] \in {"idle", "done"}

\* calls may overlap: a new call can start while others are suspended
Next == Call \/ Step

Spec == Init /\ [][Next]_vars

\* calls run one at a time, each to completion
NextSeq == (Idle /\ Call) \/ Step

SpecSeq == Init /\ [][NextSeq]_vars

\* every issued request eventually responds or fails, and the event loop
\* then runs the continuation that waits for it
Fairness ==
    /\ WF_vars(InitStep)
    /\ \A p \in Logins : WF_vars(LoginStep(p))
    /\ \A p \in Registers : WF_vars(RegisterStep(p))

\* calls run one at a time, and every answer arrives
SpecSeqLive == SpecSeq /\ Fairness

(* ------------------------------- claims ------------------------------- *)
\* call p is the most recently started call and has settled: the state is
\* the one the call ends in
Completed(p) == cur = p /\ pc[p] = "done"

\* the value a body carries in a field: a non-empty message, a non-empty
\* token, a user record; falsy values count as the field being absent
HasMessage(b) == b.kind = "object" /\ b.message \in Messages
HasToken(b) == b.kind = "object" /\ b.token \in Tokens
HasUser(b) == b.kind = "object" /\ b.user \in Users

\* C1: an initialize() run that finds no stored token ends with Session
\* State absent and has issued no HTTP request.
C1_NoTokenNoRequest ==
    (Completed(INIT) /\ pre.token = NULL) => (user = NULL /\ reqs[INIT] = <<>>)

C1_Witness == Completed(INIT) /\ pre.token = NULL /\ res[INIT].status = "none"

\* C2: an initialize() run with a stored token whose who-am-I request
\* answers non-2xx ends with Session State absent and the token removed,
\* whether or not the error body parses.
C2_RejectedTokenPurged ==
    (Completed(INIT) /\ res[INIT].status = "notok") => (user = NULL /\ token = NULL)

C2_Witness ==
    /\ Completed(INIT)
    /\ res[INIT].status = "notok"
    /\ res[INIT].body.kind = "unparseable"
    /\ pre.token \in Tokens

\* C3: an initialize() run with a stored token whose who-am-I request
\* fails at transport level, or whose 2xx body does not parse, ends with
\* Session State absent and the stored token still the one it started with.
C3_TransportFailureKeepsToken ==
    (/\ Completed(INIT)
     /\ \/ res[INIT].status = "rejected"
        \/ res[INIT].status = "ok" /\ res[INIT].body.kind = "unparseable")
    => (user = NULL /\ token \in Tokens /\ token = pre.token)

C3_Witness == Completed(INIT) /\ res[INIT].status = "rejected" /\ token \in Tokens

\* C4: an initialize() run with a stored token whose who-am-I request
\* answers 2xx ends with Session State equal to the body's user record when
\* the body carries one and absent when it does not; the stored token is
\* retained either way.
C4_ProfileLoaded ==
    (Completed(INIT) /\ res[INIT].status = "ok") =>
        /\ token \in Tokens /\ token = pre.token
        /\ user = IF HasUser(res[INIT].body) THEN res[INIT].body.user ELSE NULL

C4_Witness ==
    /\ Completed(INIT)
    /\ res[INIT].status = "ok"
    /\ HasUser(res[INIT].body)
    /\ user = res[INIT].body.user

\* C5: a login whose /login request answers non-2xx returns the body's
\* message when it carries one and 'login failed' otherwise; Session State
\* and the stored token are what they were before the call, the only
\* request issued is the /login one, and nothing is navigated to.
C5_LoginRejected ==
    \A p \in Logins :
        (Completed(p) /\ res[p].status = "notok") =>
            /\ ret[p] = IF HasMessage(res[p].body) THEN res[p].body.message
                        ELSE "login failed"
            /\ user = pre.user
            /\ token = pre.token
            /\ reqs[p] = <<Request("/login", NoAuth)>>
            /\ navs[p] = <<>>

C5_Witness ==
    \E p \in Logins :
        /\ Completed(p)
        /\ res[p].status = "notok"
        /\ ret[p] = "bad creds"
        /\ pre.user \in Users
        /\ pre.token \in Tokens

\* C6: a login whose /login request answers 2xx with a body that has no
\* token returns 'no token'; durable storage and Session State are what
\* they were before the call and nothing is navigated to.
C6_LoginNoToken ==
    \A p \in Logins :
        (/\ Completed(p)
         /\ res[p].status = "ok"
         /\ res[p].body.kind \in {"null", "object"}
         /\ ~HasToken(res[p].body))
        => /\ ret[p] = "no token"
           /\ token = pre.token
           /\ user = pre.user
           /\ navs[p] = <<>>

C6_Witness ==
    \E p \in Logins :
        /\ Completed(p)
        /\ res[p].status = "ok"
        /\ res[p].body.kind = "object"
        /\ res[p].body.token = UNDEFINED
        /\ pre.user \in Users

C8_Logout ==
    [][(calls' = calls + 1 /\ cur' = LOGOUT) =>
          /\ token' = NULL
          /\ user' = NULL
          /\ navs'[LOGOUT] = <<"/">>
          /\ pc'[LOGOUT] = "done"
          /\ ret'[LOGOUT] = UNDEFINED]_vars

\* logout has run from a state with Session State set and no token stored
C8_Witness ==
    /\ Completed(LOGOUT)
    /\ pre.token = NULL
    /\ pre.user \in Users
    /\ token = NULL
    /\ user = NULL

C10_RegisterRejected ==
    \A p \in Registers :
        (Completed(p) /\ res[p].status = "notok") =>
            /\ ret[p] = IF HasMessage(res[p].body) THEN res[p].body.message
                        ELSE "registration failed"
            /\ token = pre.token
            /\ user = pre.user
            /\ navs[p] = <<>>

C10_Witness ==
    \E p \in Registers :
        /\ Completed(p)
        /\ res[p].status = "notok"
        /\ res[p].body.kind = "object"
        /\ res[p].body.message = UNDEFINED
        /\ ret[p] = "registration failed"
        /\ pre.user \in Users

\* C11: a transport failure never surfaces as a raised error.  A rejected
\* /login or /register fetch makes the call return a non-empty error
\* string, with Session State and the stored token as before the call and
\* no navigation; a rejected who-am-I fetch in initialize, or in login after
\* the token was stored, only sets Session State to absent (the token stays,
\* login still navigates and returns "").
C11_TransportFailuresCaught ==
    /\ \A p \in Logins :
        (Completed(p) /\ res[p].status = "rejected") =>
            /\ ret[p] = "unable to login"
            /\ user = pre.user /\ token = pre.token /\ navs[p] = <<>>
    /\ \A p \in Registers :
        (Completed(p) /\ res[p].status = "rejected") =>
            /\ ret[p] = "unable to register"
            /\ user = pre.user /\ token = pre.token /\ navs[p] = <<>>
    /\ (Completed(INIT) /\ res[INIT].status = "rejected") =>
            /\ ret[INIT] = UNDEFINED
            /\ user = NULL /\ token = pre.token /\ navs[INIT] = <<>>
    /\ \A p \in Logins :
        (Completed(p) /\ profileRes[p].status = "rejected") =>
            /\ ret[p] = ""
            /\ user = NULL /\ token = bearer[p] /\ navs[p] = <<"/profile">>

C11_Witness ==
    \E p \in Logins :
        /\ Completed(p)
        /\ res[p].status = "rejected"
        /\ ret[p] = "unable to login"
        /\ pre.user \in Users
        /\ user = pre.user

\* C12: in every reachable state, with calls overlapping in any way, a
\* token whose latest who-am-I validation was rejected is not left stored
\* together with a non-absent Session State.  Stated on the step that
\* follows the rejection: when login q has just settled on a non-2xx
\* who-am-I answer for the token that is stored, and no other call has asked
\* about that token, a step that leaves the token stored leaves Session
\* State absent.
C12_RejectedTokenNeverPaired ==
    [][\A q \in Logins :
          (/\ pc[q] = "done"
           /\ profileRes[q].status = "notok"
           /\ bearer[q] = token
           /\ \A r \in Procs \ {q} : bearer[r] # token
           /\ token' = token)
          => user' = NULL]_vars

\* C13: whenever login returns its success signal "", Session State is
\* non-absent.
C13_LoggedInMeansUser ==
    \A p \in Logins : (Completed(p) /\ ret[p] = "") => user # NULL

\* C14: a register that succeeds navigates to "/".
C14_RegisterNavigatesHome ==
    \A p \in Registers :
        (Completed(p) /\ res[p].status = "ok" /\ ret[p] = "") => navs[p] = <<"/">>

\* C15: the events of a successful login are ordered.  The who-am-I
\* request is issued only after the /login answer was received, by the step
\* that has written the new token, and it bears exactly that token; from
\* then on the call writes no token; Session State is written, '/profile'
\* is navigated to and "" is returned only by the step in which the
\* who-am-I fetch completes, never earlier.
C15_LoginOrder ==
    [][\A p \in Logins :
          /\ (pc[p] = "awaitJson" /\ pc'[p] = "awaitProfile") =>
                /\ res[p].status = "ok"
                /\ token' \in Tokens
                /\ token' = res'[p].body.token
                /\ reqs[p] = <<Request("/login", NoAuth)>>
                /\ reqs'[p] = <<Request("/login", NoAuth), Request("/user/me", token')>>
                /\ user' = user /\ navs'[p] = <<>> /\ ret'[p] = PENDING
          /\ (pc[p] \in {"awaitProfile", "awaitProfileJson"} /\ pc'[p] # pc[p]) =>
                token' = token
          /\ (pc[p] # "done" /\ pc'[p] = "done" /\ ret'[p] = "") =>
                /\ pc[p] \in {"awaitProfile", "awaitProfileJson"}
                /\ Len(reqs[p]) = 2
                /\ profileRes'[p].status \in {"ok", "notok", "rejected"}
                /\ user' = IF HasUser(profileRes'[p].body)
                           THEN profileRes'[p].body.user ELSE NULL
                /\ navs[p] = <<>> /\ navs'[p] = <<"/profile">>
          /\ (navs[p] = <<>> /\ navs'[p] # <<>>) =>
                pc'[p] = "done" /\ ret'[p] = ""]_vars

C15_Witness ==
    \E p \in Logins :
        /\ pc[p] = "done"
        /\ ret[p] = ""
        /\ bearer[p] \in Tokens
        /\ reqs[p] = <<Request("/login", NoAuth), Request("/user/me", bearer[p])>>
        /\ navs[p] = <<"/profile">>
        /\ user \in Users
        /\ token = bearer[p]
        /\ pre.token \in Tokens /\ pre.token # token

\* C16: overlapping logins are not coordinated: the last write wins.  While
\* another login q is under way or has just settled, the step in which
\* login p processes its /login answer stores p's token whatever q stored,
\* and the step in which p's who-am-I fetch completes sets Session State
\* to p's result whatever q wrote (and leaves the stored token alone); the
\* order in which p and q were started plays no part.
C16_LastWriteWins ==
    [][\A p \in Logins : \A q \in Logins \ {p} :
          pc[q] # "idle" =>
             /\ (pc[p] = "awaitJson" /\ pc'[p] = "awaitProfile") =>
                   token' = res'[p].body.token
             /\ (pc[p] \in {"awaitProfile", "awaitProfileJson"} /\ pc'[p] = "done") =>
                   /\ user' = IF HasUser(profileRes'[p].body)
                              THEN profileRes'[p].body.user ELSE NULL
                   /\ token' = token]_vars

\* both logins have completed; p was started first and completed last: the
\* Session State is p's, the stored token is q's
C16_Witness ==
    \E p \in Logins : \E q \in Logins \ {p} :
        /\ cur = q /\ pc[q] = "idle"
        /\ pc[p] = "done" /\ ret[p] = ""
        /\ HasUser(profileRes[p].body) /\ user = profileRes[p].body.user
        /\ bearer[p] \in Tokens /\ token \in Tokens /\ token # bearer[p]

\* C17: there are no retries and every call ends.  A login issues at most
\* two requests (one POST /login, then at most one GET /user/me), a
\* register exactly one, initialize at most one; and, every issued request
\* being answered or failing, each login and register call that has started
\* eventually returns and initialize eventually settles, having written
\* Session State.
C17_NoRetriesAndTermination ==
    /\ [](/\ \A p \in Logins :
              \/ reqs[p] = <<>>
              \/ reqs[p] = <<Request("/login", NoAuth)>>
              \/ /\ Len(reqs[p]) = 2
                 /\ reqs[p][1] = Request("/login", NoAuth)
                 /\ reqs[p][2].path = "/user/me"
          /\ \A p \in Registers :
              reqs[p] = IF pc[p] = "idle" THEN <<>> ELSE <<Request("/register", NoAuth)>>
          /\ Len(reqs[INIT]) <= 1
          /\ \A r \in Procs : pc[r] \in {"awaitLogin", "awaitRegister"} => Len(reqs[r]) = 1)
    /\ \A p \in Logins \cup Registers :
          (pc[p] \notin {"idle", "done"}) ~> (pc[p] = "done" /\ ret[p] # PENDING)
    /\ (pc[INIT] = "mount") ~> (pc[INIT] = "done")

C17_Witness ==
    \E p \in Logins :
        /\ Completed(p)
        /\ Len(reqs[p]) = 2
        /\ profileRes[p].status = "rejected"
        /\ ret[p] = ""
        /\ res[INIT].status = "none" /\ Len(reqs[INIT]) = 0

\* C18: a logout() that runs while a who-am-I fetch started earlier is in
\* flight is not undone by it: once no call is in flight, and no login was
\* started after the logout (logout is the most recently started call),
\* Session State is absent.
C18_LogoutNotUndone == (cur = LOGOUT /\ Idle) => user = NULL

\* C19: when initialize, login, logout and register run one at a time,
\* each to completion, every reachable state (between calls and in the
\* middle of one) with a non-absent Session State has a token stored.
C19_UserImpliesToken == user # NULL => token \in Tokens

\* a second login is under way: the first one's user is still published and
\* the new token is already stored
C19_Witness ==
    \E p \in Logins :
        /\ pc[p] = "awaitProfile"
        /\ user \in Users
        /\ token = bearer[p]
        /\ pre.token \in Tokens /\ pre.token # token
        /\ pre.user = user

\* C20: the non-2xx path of initialize deletes only the token it read at
\* mount and sent for validation: when a login has stored a different token
\* while initialize's who-am-I request was in flight, the step in which
\* initialize completes on a non-2xx answer leaves that token stored.
C20_InitPurgesOnlyItsToken ==
    [][(/\ pc[INIT] = "awaitErrJson"
        /\ pc'[INIT] = "done"
        /\ token \in Tokens
        /\ token # bearer[INIT])
       => token' = token]_vars

====
